---- MODULE Spec2Model ----
(***************************************************************************)
(* Knowledge-grounded response pipeline of agent-forge: knowledge          *)
(* ingestion (file upload, URL ingestion, deletion) and the chat turn      *)
(* (retrieval, tool planning, tool execution, composition).                *)
(***************************************************************************)
EXTENDS Integers, Sequences, FiniteSets, TLC

(***************************************************************************)
(* Bounds                                                                  *)
(***************************************************************************)
MaxDocs == 2

(***************************************************************************)
(* Values                                                                  *)
(***************************************************************************)
\* a NULL text column
NULL == <<>>

\* normalized text of an upload; the blank token stands for text that is
\* empty after trim()
Texts == {"c1", "c2"}
BlankText == ""

\* vectors the embedding backend can return (response.embeddings[0].values
\* || []); <<>> is the empty vector
EmbedVectors == {<<>>, <<1, 0>>, <<0, 1>>}

\* JSON.stringify of a number array, as stored in the text column
Stringify(v) == <<"json", v>>

\* JSON.parse of a stored embedding: [ok, value]; ok = FALSE when it throws
JsonParse(s) ==
    IF Len(s) = 2 /\ s[1] = "json" THEN [ok |-> TRUE, value |-> s[2]]
    ELSE [ok |-> FALSE, value |-> <<>>]

\* outcomes of generateEmbedding: the vector, or an exception
EmbedThrow == [ok |-> FALSE, values |-> <<>>]
EmbedResults == {[ok |-> TRUE, values |-> v] : v \in EmbedVectors} \cup {EmbedThrow}

IsNumericVector(v) == v \in Seq(Int)

(***************************************************************************)
(* Retriever                                                               *)
(***************************************************************************)
RECURSIVE DotFrom(_, _, _)
DotFrom(a, b, i) == IF i > Len(a) THEN 0 ELSE a[i] * b[i] + DotFrom(a, b, i + 1)

\* calculateCosineSimilarity(a, b) for vectors of equal length, kept exact:
\* the value is dot / sqrt(nn); it is NaN when nn = 0
CosineSimilarity(a, b) ==
    [dot |-> DotFrom(a, b, 1), nn |-> DotFrom(a, a, 1) * DotFrom(b, b, 1)]

IsNaN(s) == s.nn = 0

\* s > t as numbers (false when either is NaN)
SimGreater(s, t) ==
    /\ ~IsNaN(s) /\ ~IsNaN(t)
    /\ IF s.dot >= 0 /\ t.dot < 0 THEN TRUE
       ELSE IF s.dot < 0 /\ t.dot >= 0 THEN FALSE
       ELSE IF s.dot >= 0 THEN s.dot * s.dot * t.nn > t.dot * t.dot * s.nn
       ELSE s.dot * s.dot * t.nn < t.dot * t.dot * s.nn

\* similarity !== -1 fails exactly for the value -1
IsMinusOne(s) == ~IsNaN(s) /\ s.dot < 0 /\ s.dot * s.dot = s.nn

\* similarity > 0.3
AboveThreshold(s) == ~IsNaN(s) /\ s.dot > 0 /\ 100 * s.dot * s.dot > 9 * s.nn

\* sorted.sort((a, b) => b.similarity - a.similarity): x moves in front of
\* the elements whose similarity is smaller; equal ones keep their order
RECURSIVE InsertRanked(_, _)
InsertRanked(sorted, x) ==
    IF sorted = <<>> THEN <<x>>
    ELSE LET last == sorted[Len(sorted)]
         IN IF SimGreater(x.sim, last.sim)
            THEN Append(InsertRanked(SubSeq(sorted, 1, Len(sorted) - 1), x), last)
            ELSE Append(sorted, x)

RECURSIVE SortDescFrom(_, _, _)
SortDescFrom(xs, i, acc) ==
    IF i > Len(xs) THEN acc ELSE SortDescFrom(xs, i + 1, InsertRanked(acc, xs[i]))

SortDesc(xs) == SortDescFrom(xs, 1, <<>>)

RankOneMut(q, doc) ==
    LET parsed == JsonParse(doc.embedding)
    IN  IF ~parsed.ok \/ ~IsNumericVector(parsed.value) \/ Len(parsed.value) = 0
        THEN [throws |-> FALSE, dropped |-> FALSE, content |-> doc.content,
              sim |-> [dot |-> 0, nn |-> 1]]
        ELSE IF Len(parsed.value) # Len(q)
        THEN [throws |-> TRUE, dropped |-> TRUE, content |-> doc.content,
              sim |-> [dot |-> 0, nn |-> 0]]
        ELSE LET sim == CosineSimilarity(q, parsed.value)
             IN [throws |-> FALSE, dropped |-> IsMinusOne(sim),
                 content |-> doc.content, sim |-> sim]

\* the documents.map(...) of findRelevantKnowledge for one document:
\* [throws, dropped, content, sim]
RankOne(q, doc) ==
    LET parsed == JsonParse(doc.embedding)
        zero   == [dot |-> 0, nn |-> 0]
    IN  IF ~parsed.ok \/ ~IsNumericVector(parsed.value) \/ Len(parsed.value) = 0
        THEN [throws |-> FALSE, dropped |-> TRUE, content |-> doc.content, sim |-> zero]
        ELSE IF Len(parsed.value) # Len(q)
        THEN [throws |-> TRUE, dropped |-> TRUE, content |-> doc.content, sim |-> zero]
        ELSE LET sim == CosineSimilarity(q, parsed.value)
             IN [throws |-> FALSE, dropped |-> IsMinusOne(sim),
                 content |-> doc.content, sim |-> sim]

SeqFilter(xs, Keep(_)) ==
    LET F[i \in 0..Len(xs)] ==
            IF i = 0 THEN <<>>
            ELSE IF Keep(xs[i]) THEN Append(F[i - 1], xs[i]) ELSE F[i - 1]
    IN F[Len(xs)]

TopK == 3

Retrieved(ctx, embedCalled, threw) ==
    [ctx |-> ctx, embedCalled |-> embedCalled, threw |-> threw]

\* findRelevantKnowledge from the query embedding on: the ranking, the top
\* three and the threshold; failed = it threw
RankDocuments(documents, qe) ==
    IF ~qe.ok THEN [failed |-> TRUE, called |-> TRUE, ctx |-> <<>>]
    ELSE LET ranked == [i \in 1..Len(documents) |-> RankOne(qe.values, documents[i])]
             Kept(r) == ~r.dropped
             Near(r) == AboveThreshold(r.sim)
             similarities == SeqFilter(ranked, Kept)
             sorted   == SortDesc(similarities)
             top      == SubSeq(sorted, 1, IF Len(sorted) < TopK THEN Len(sorted) ELSE TopK)
             relevant == SeqFilter(top, Near)
             Contents(rs) == [i \in 1..Len(rs) |-> rs[i].content]
         IN  IF \E i \in 1..Len(ranked) : ranked[i].throws
             THEN [failed |-> TRUE, called |-> TRUE, ctx |-> <<>>]
             ELSE IF similarities = <<>> THEN [failed |-> FALSE, called |-> TRUE, ctx |-> <<>>]
             ELSE IF relevant # <<>>
             THEN [failed |-> FALSE, called |-> TRUE, ctx |-> Contents(relevant)]
             ELSE [failed |-> FALSE, called |-> TRUE, ctx |-> Contents(top)]

RankAndSelectMut(documents, qe) == RankDocuments(documents, qe)

\* the body of findRelevantKnowledge's try block: nothing is embedded for
\* an empty document list
RankAndSelect(documents, qe) ==
    IF documents = <<>> THEN [failed |-> FALSE, called |-> FALSE, ctx |-> <<>>]
    ELSE RankDocuments(documents, qe)

FindRelevantKnowledgeMut(documents, qe) ==
    LET r == RankAndSelect(documents, qe)
    IN  Retrieved(r.ctx, r.called, r.failed)

\* findRelevantKnowledge(query, documents); qe is the outcome of
\* generateEmbedding(query).  Result: the context (contents in order, joined
\* by blank lines in the code), whether the embedding backend was called,
\* and whether an exception leaves the function (the catch returns "")
FindRelevantKnowledge(documents, qe) ==
    LET r == RankAndSelect(documents, qe)
    IN  Retrieved(IF r.failed THEN <<>> ELSE r.ctx, r.called, FALSE)

\* !knowledgeContext || !knowledgeContext.trim()
IsBlankContext(ctx) == \A i \in 1..Len(ctx) : ctx[i] = BlankText

(***************************************************************************)
(* Model output: a text is a sequence of segments, prose (no braces) and   *)
(* JSON objects                                                            *)
(***************************************************************************)
NoPayload == [t |-> "none"]
Prose == [k |-> "prose", v |-> NoPayload]
Obj(v) == [k |-> "obj", v |-> v]
\* a JSON object inside a code fence: ```json\n{...}\n```
Fence(v) == [k |-> "fence", v |-> v]

\* JSON.parse(text): only a text that is one JSON object parses
JsonParseText(text) ==
    IF Len(text) = 1 /\ text[1].k = "obj" THEN [ok |-> TRUE, v |-> text[1].v]
    ELSE [ok |-> FALSE, v |-> NoPayload]

\* text.match(/\{[\s\S]*\}/): from the first opening brace to the last
\* closing brace
GreedyBraceMatch(text) ==
    LET objs == {i \in 1..Len(text) : text[i].k \in {"obj", "fence"}}
        first == CHOOSE i \in objs : \A j \in objs : i <= j
        last  == CHOOSE i \in objs : \A j \in objs : j <= i
    IN  IF objs = {} THEN [ok |-> FALSE, text |-> <<>>]
        ELSE [ok |-> TRUE,
              text |-> [i \in 1..(last - first + 1) |->
                          IF i \in {1, last - first + 1}
                          THEN Obj(text[first + i - 1].v) ELSE text[first + i - 1]]]

\* text.match(/\{[\s\S]*?\}/): from the first opening brace to the first
\* closing brace after it
LazyBraceMatch(text) ==
    LET objs == {i \in 1..Len(text) : text[i].k \in {"obj", "fence"}}
        first == CHOOSE i \in objs : \A j \in objs : i <= j
    IN  IF objs = {} THEN [ok |-> FALSE, text |-> <<>>]
        ELSE [ok |-> TRUE, text |-> <<Obj(text[first].v)>>]

\* text.replace(/```[a-zA-Z]*\n([\s\S]*?)```/g, "$1").trim()
FenceStrip(text) ==
    [i \in 1..Len(text) |-> IF text[i].k = "fence" THEN Obj(text[i].v) ELSE text[i]]

(***************************************************************************)
(* Tool endpoints: a URL text is scheme, userinfo, host and the rest       *)
(***************************************************************************)
Url(scheme, userinfo, host) == [scheme |-> scheme, userinfo |-> userinfo, host |-> host]

\* a relative endpoint such as /internal/status
RelativeUrl == Url("", "", "")

Endpoints ==
    { Url("http:", "", "api.example.com"),
      Url("http:", "", "127.0.0.1"),
      Url("http:", "", "[::1]"),
      Url("http:", "user", "localhost"),
      Url("HTTP:", "", "LOCALHOST"),
      Url("http:", "", "exa mple.com"),
      RelativeUrl }

Lower(t) ==
    IF t = "HTTP:" THEN "http:" ELSE IF t = "LOCALHOST" THEN "localhost" ELSE t

\* url.startsWith('http')
StartsWithHttp(u) == u.scheme = "http:"

\* hosts the URL parser rejects
HostParses(h) == h # "exa mple.com"

\* new URL(url, base).toString(): [ok, url]; ok = FALSE when it throws
NewUrl(u, hasBase) ==
    IF u.scheme # ""
    THEN IF HostParses(u.host)
         THEN [ok |-> TRUE, url |-> Url(Lower(u.scheme), u.userinfo, Lower(u.host))]
         ELSE [ok |-> FALSE, url |-> u]
    ELSE IF hasBase THEN [ok |-> TRUE, url |-> Url("http:", "", "localhost")]
         ELSE [ok |-> FALSE, url |-> u]

\* the host a request to a parsed URL connects to
ResolvedHost(u) == IF u.host = "[::1]" THEN "::1" ELSE u.host

LoopbackHosts == {"localhost", "127.0.0.1", "::1"}

\* /^https?:\/\/(localhost|127\.0\.0\.1|::1)/i.test(url): the text right
\* after the scheme starts with one of the three names
LoopbackPattern(u) ==
    /\ Lower(u.scheme) = "http:"
    /\ u.userinfo = ""
    /\ Lower(u.host) \in LoopbackHosts

\* outcomes of the network for a request that is sent
NetOutcomes == {"neterr", "200", "500", "unparsable"}

NoRun == [kind |-> "none", status |-> 0]

\* fetch(url, ...) with the response read: [threw, sent, host, run]
Fetch(u, net) ==
    LET parsed == NewUrl(u, FALSE)
    IN  IF ~parsed.ok
        THEN [threw |-> TRUE, sent |-> FALSE, host |-> "", run |-> NoRun]
        ELSE IF net = "neterr"
        THEN [threw |-> TRUE, sent |-> TRUE, host |-> ResolvedHost(parsed.url), run |-> NoRun]
        ELSE [threw |-> FALSE, sent |-> TRUE, host |-> ResolvedHost(parsed.url),
              run |-> [kind |-> "result", status |-> IF net = "500" THEN 500 ELSE 200]]

\* request construction shared by both call sites: the URL for the method;
\* ok = FALSE when new URL throws
BuildRequest(tool) ==
    IF tool.method = "GET"
    THEN NewUrl(tool.endpoint, ~StartsWithHttp(tool.endpoint))
    ELSE [ok |-> TRUE, url |-> tool.endpoint]

\* the inline tool execution of the chat turn:
\* [threw, sent, host, run]; threw = an exception leaves the handler's try
ExecuteInTurn(tool, allow, net) ==
    LET req == BuildRequest(tool)
    IN  IF ~req.ok
        THEN [threw |-> TRUE, sent |-> FALSE, host |-> "", run |-> NoRun]
        ELSE IF LoopbackPattern(req.url) /\ ~allow
        THEN [threw |-> FALSE, sent |-> FALSE, host |-> "",
              run |-> [kind |-> "skipped", status |-> 0]]
        ELSE LET f == Fetch(req.url, net)
             IN IF f.threw
                THEN [f EXCEPT !.threw = FALSE, !.run = [kind |-> "error", status |-> 0]]
                ELSE f

\* POST /api/tools/:id/execute after the tool lookup: [status, sent, host]
ExecuteDirect(tool, allow, net) ==
    LET req == BuildRequest(tool)
    IN  IF tool.method \notin {"GET", "POST"}
        THEN [status |-> 400, sent |-> FALSE, host |-> ""]
        ELSE IF ~req.ok
        THEN [status |-> 500, sent |-> FALSE, host |-> ""]
        ELSE IF LoopbackPattern(req.url) /\ ~allow
        THEN [status |-> 400, sent |-> FALSE, host |-> ""]
        ELSE LET f == Fetch(req.url, net)
             IN [status |-> IF f.threw THEN 500 ELSE 200, sent |-> f.sent, host |-> f.host]

(***************************************************************************)
(* Tools and the Tool Planner                                              *)
(***************************************************************************)
ParamNames == {"city", "units"}

\* a tool row; parameters are the definitions (name, required)
Tool(method, endpoint) ==
    [id |-> "t1", name |-> "weather", method |-> method, endpoint |-> endpoint,
     parameters |-> {[name |-> "city", required |-> TRUE],
                     [name |-> "units", required |-> FALSE]}]

ToolCatalogs == {{}} \cup {{Tool(m, e)} : m \in {"GET", "POST"}, e \in Endpoints}

\* the JSON value of a plan: params maps a name to the kind of value given
\* for it, missing is the "missing" member (an array of names, or absent)
NoParams == [n \in ParamNames |-> "absent"]
NoMissing == [array |-> FALSE, names |-> {}]
Decision(action, toolId, params, missing) ==
    [action |-> action, toolId |-> toolId, params |-> params, missing |-> missing]

\* decision = null
NoDecision == Decision("null", "", NoParams, NoMissing)

ToolIds == {"t1", "tX", ""}
ParamValues ==
    {p \in [ParamNames -> {"absent", "scalar", "object"}] : p["units"] = "absent"}
MissingLists ==
    {NoMissing} \cup {[array |-> TRUE, names |-> ns] : ns \in {{"city"}, {"city", "units"}}}

PlannerDecisions ==
    {Decision("none", "", NoParams, NoMissing)}
    \cup {Decision("ask", id, NoParams, m) : id \in ToolIds, m \in MissingLists}
    \cup {Decision("call", id, ps, NoMissing) : id \in ToolIds, ps \in ParamValues}

\* texts the planning call can return: the bare object, the object inside
\* prose, prose only, the empty text, two objects with prose between them
PlannerOutputs ==
    {<<Obj(d)>> : d \in PlannerDecisions}
    \cup {<<Prose, Obj(d), Prose>> : d \in PlannerDecisions}
    \cup {<<Prose>>, <<>>}
    \cup {<<Obj(d), Prose, Obj(d)>> : d \in {Decision("call", "t1", NoParams, NoMissing)}}
    \cup {<<Fence(d)>> : d \in {Decision("call", "t1", NoParams, NoMissing)}}

ParseDecisionMut(raw) ==
    LET m == GreedyBraceMatch(raw)
        p == JsonParseText(IF m.ok THEN m.text ELSE raw)
    IN  [ok |-> p.ok, threw |-> ~p.ok, decision |-> IF p.ok THEN p.v ELSE NoDecision]

\* decisionRaw = match ? match[0] : raw; try { decision = JSON.parse } catch {}
\* [ok, threw, decision]; threw = an exception leaves the parsing statement
ParseDecision(raw) ==
    LET m == GreedyBraceMatch(raw)
        p == JsonParseText(IF m.ok THEN m.text ELSE raw)
    IN  [ok |-> p.ok, threw |-> FALSE, decision |-> IF p.ok THEN p.v ELSE NoDecision]

\* tools.find(t => t.id === decision.toolId): the set of matches
FindTool(tools, toolId) == {t \in tools : t.id = toolId}

\* the parameters sent: scalar, non-null values of decision.params
ExecParams(decision) == {n \in ParamNames : decision.params[n] = "scalar"}

RequiredParams(tool) == {p.name : p \in {q \in tool.parameters : q.required}}

(***************************************************************************)
(* Message contents                                                        *)
(***************************************************************************)
Content(kind, tool, names, text) ==
    [kind |-> kind, tool |-> tool, names |-> names, text |-> text]

NoContent == Content("none", "", {}, BlankText)
UserContent(text) == Content("user", "", {}, text)

ClarificationMut(tool, missingList) ==
    Content("clarification", tool.name,
            {p.name : p \in {q \in tool.parameters : q.required /\ q.name \in missingList}},
            "I still need")

\* the clarification text: the tool's name and the quoted names of
\* missingList
Clarification(tool, missingList) ==
    Content("clarification", tool.name, missingList, "I still need")

\* decision.missing as missingList
MissingList(decision) == IF decision.missing.array THEN decision.missing.names ELSE {}

(***************************************************************************)
(* Response Composer                                                       *)
(***************************************************************************)
\* texts of the classification call: payload [category, reply]; reply is a
\* text, a blank text or not a string
Classification(category, reply) == [category |-> category, reply |-> reply]
ClassifierOutputs ==
    {<<Obj(Classification(c, r))>> :
        c \in {"casual", "info_request"}, r \in {"reply", BlankText, "nonstring"}}
    \cup {<<Obj(Classification("other", "reply"))>>,
          <<Fence(Classification("info_request", "reply"))>>,
          <<Prose, Fence(Classification("casual", "reply")), Prose>>,
          <<Prose, Obj(Classification("casual", "reply"))>>,
          <<Obj(Classification("casual", "nonstring")), Prose,
            Obj(Classification("casual", "reply"))>>,
          <<Prose>>, <<>>}

\* obj && typeof obj.reply === 'string' && typeof obj.category === 'string'
ValidClassification(p) == p.ok /\ p.v.reply # "nonstring"

\* parseJson of generateAgentResponse: the raw text, the text without
\* fences, then the first brace-delimited span of the raw text
ParseClassification(raw) ==
    LET direct   == JsonParseText(raw)
        stripped == JsonParseText(FenceStrip(raw))
        match    == LazyBraceMatch(raw)
        span     == JsonParseText(match.text)
    IN  IF ValidClassification(direct) THEN [ok |-> TRUE, v |-> direct.v]
        ELSE IF ValidClassification(stripped) THEN [ok |-> TRUE, v |-> stripped.v]
        ELSE IF match.ok /\ ValidClassification(span) THEN [ok |-> TRUE, v |-> span.v]
        ELSE [ok |-> FALSE, v |-> Classification("", BlankText)]

\* the answer when the classification cannot be parsed
StaticRefusal ==
    Content("insufficient", "", {},
            "I don't have enough information. Could you share more details?")

\* what the classification call's text was taken for: the category of the
\* parsed object, or unparsed
ClassifiedAs(raw) ==
    IF ParseClassification(raw).ok THEN ParseClassification(raw).v.category
    ELSE "unparsed"

ComposeWithoutKnowledgeMut(raw) ==
    LET parsed == ParseClassification(raw)
    IN  IF parsed.ok
        THEN IF parsed.v.category = "casual"
             THEN Content("casual", "", {}, parsed.v.reply)
             ELSE IF parsed.v.reply # BlankText
                  THEN Content("info", "", {}, parsed.v.reply)
                  ELSE Content("insufficient", "", {}, "I don't have enough information")
        ELSE Content("info", "", {}, BlankText)

\* generateAgentResponse without knowledge: the content for a model text
ComposeWithoutKnowledge(raw) ==
    LET parsed == ParseClassification(raw)
    IN  IF parsed.ok
        THEN IF parsed.v.category = "casual"
             THEN Content("casual", "", {}, parsed.v.reply)
             ELSE IF parsed.v.reply # BlankText
                  THEN Content("info", "", {}, parsed.v.reply)
                  ELSE Content("insufficient", "", {}, "I don't have enough information")
        ELSE StaticRefusal

\* generateAgentResponse with knowledge: response.text || ""
ComposeWithKnowledge(text) == Content("grounded", "", {}, text)

\* the answer composed from a tool result: answer.trim() || fallback
ComposeFromTool(text) ==
    IF text # BlankText THEN Content("toolAnswer", "", {}, text)
    ELSE Content("toolAnswer", "", {}, "I had trouble forming a response.")

(***************************************************************************)
(* Embed origins                                                           *)
(***************************************************************************)
RequestOrigins ==
    {"", "https://app.example.com", "https://evilexample.com", "https://other.org"}

\* requestOrigin.endsWith(rule.replace(/^\./, ""))
OriginEndsWith(origin, rule) ==
    /\ rule = ".example.com"
    /\ origin \in {"https://app.example.com", "https://evilexample.com"}

\* originAllowed(allowed, requestOrigin); allowed is the list of rules of
\* the trimmed text, <<"*">> the wildcard, <<>> the empty text
OriginAllowed(allowed, origin) ==
    IF allowed = <<>> THEN FALSE
    ELSE IF allowed = <<"*">> THEN TRUE
    ELSE IF origin = "" THEN FALSE
    ELSE \E i \in 1..Len(allowed) :
            IF allowed[i] = ".example.com" THEN OriginEndsWith(origin, allowed[i])
            ELSE origin = allowed[i]

(***************************************************************************)
(* State                                                                   *)
(***************************************************************************)
VARIABLES
    docs,          \* knowledge_documents rows: [id, content, embedding, processed]
    nextDocId,     \* number of rows ever inserted (ids are never reused)
    up,            \* the upload / URL-ingestion request being handled
    allowInternal, \* process.env.ALLOW_INTERNAL_TOOL_CALLS is set
    tools,         \* tools rows of the agent
    agent,         \* embed fields of the agent: allowEmbed, publicKey, origins
    sessions,      \* session ids of the embedded conversation
    title,         \* title of the user's conversation
    messages,      \* messages rows per conversation, in insertion order
    turn,          \* the chat request being handled
    outbound,      \* hosts that outbound tool requests were sent to, per call site
    execStatus,    \* status of the last POST /api/tools/:id/execute
    sends,         \* the overlapping chat requests of one conversation
    files,         \* the files state of the FileUpload component
    uploads        \* the uploadFile calls of the component that await their response

ingestVars == <<docs, nextDocId, up>>
chatVars == <<allowInternal, tools, agent, sessions, title, messages, turn,
              outbound, execStatus>>
overlapVars == <<sends, files, uploads>>
vars == <<docs, nextDocId, up, allowInternal, tools, agent, sessions, title,
          messages, turn, outbound, execStatus, sends, files, uploads>>

(***************************************************************************)
(* Summarizer                                                              *)
(***************************************************************************)
\* the JSON value of a summary output; summary is a text, the empty string
\* or not a string
SummaryObject(summary) == [summary |-> summary]

\* prose longer than 800 characters, and its first 800 characters
LongProse == [k |-> "long", v |-> NoPayload]
CutProse == [k |-> "cut", v |-> NoPayload]

\* texts the summary call can return: the bare object, the object in a code
\* fence, in prose, in a fence after prose, prose only, long prose, the
\* empty text, objects without a usable summary
SummaryOutputs ==
    {<<Obj(SummaryObject("x"))>>,
     <<Fence(SummaryObject("x"))>>,
     <<Prose, Obj(SummaryObject("x")), Prose>>,
     <<Prose, Fence(SummaryObject("x"))>>,
     <<Prose>>,
     <<LongProse, Prose>>,
     <<>>,
     <<Obj(SummaryObject(BlankText))>>,
     <<Obj(SummaryObject("nonstring"))>>,
     <<Obj(SummaryObject("nonstring")), Prose, Obj(SummaryObject("x"))>>}

\* outcomes of the summary call: an exception, or a text
SummaryThrow == [ok |-> FALSE, raw |-> <<>>]
SummaryResults == {SummaryThrow} \cup {[ok |-> TRUE, raw |-> r] : r \in SummaryOutputs}

\* data && typeof data.summary === "string"
ValidSummary(p) == p.ok /\ p.v.summary # "nonstring"

TryParseSummaryMut(raw) ==
    LET direct == JsonParseText(raw)
    IN  IF ValidSummary(direct)
        THEN [found |-> TRUE, threw |-> FALSE, summary |-> direct.v.summary]
        ELSE [found |-> FALSE, threw |-> TRUE, summary |-> BlankText]

\* tryParseSummary: the raw text, the text without fences when that differs,
\* then the first brace-delimited span of the text without fences; every
\* JSON.parse is inside try/catch.  found = FALSE is the null result
TryParseSummary(raw) ==
    LET direct   == JsonParseText(raw)
        stripped == FenceStrip(raw)
        second   == JsonParseText(stripped)
        match    == LazyBraceMatch(stripped)
        third    == JsonParseText(match.text)
    IN  IF ValidSummary(direct)
        THEN [found |-> TRUE, threw |-> FALSE, summary |-> direct.v.summary]
        ELSE IF stripped # raw /\ ValidSummary(second)
        THEN [found |-> TRUE, threw |-> FALSE, summary |-> second.v.summary]
        ELSE IF match.ok /\ ValidSummary(third)
        THEN [found |-> TRUE, threw |-> FALSE, summary |-> third.v.summary]
        ELSE [found |-> FALSE, threw |-> FALSE, summary |-> BlankText]

\* cleaned.slice(0, 800): the text up to the end of the first 800 characters
Slice800(text) ==
    LET longs == {i \in 1..Len(text) : text[i].k = "long"}
        first == CHOOSE i \in longs : \A j \in longs : i <= j
    IN  IF longs = {} THEN text
        ELSE Append(SubSeq(text, 1, first - 1), CutProse)

\* a summary: the parsed text, the heuristic one (the cleaned output, cut),
\* or the placeholder
SummaryValue(kind, value, cleaned) == [kind |-> kind, value |-> value, cleaned |-> cleaned]
NoSummary == SummaryValue("none", BlankText, <<>>)

\* the summary of processKnowledgeDocument for the text of the summary call
\* (lines 429-440): [threw, summary]
SummaryOf(raw) ==
    LET parsed  == TryParseSummary(raw)
        cleaned == Slice800(FenceStrip(raw))
    IN  IF parsed.threw THEN [threw |-> TRUE, summary |-> NoSummary]
        ELSE IF parsed.found /\ parsed.summary # BlankText
        THEN [threw |-> FALSE, summary |-> SummaryValue("parsed", parsed.summary, <<>>)]
        ELSE IF cleaned # <<>>
        THEN [threw |-> FALSE, summary |-> SummaryValue("heuristic", BlankText, cleaned)]
        ELSE [threw |-> FALSE,
              summary |-> SummaryValue("placeholder", "No summary available", <<>>)]

IdleUpload ==
    [pc |-> "idle", kind |-> "none", content |-> BlankText, embedding |-> <<>>,
     hardFail |-> FALSE, normalized |-> FALSE, summaryCall |-> "none",
     summaryText |-> <<>>, summary |-> NoSummary, embedOutcome |-> "none",
     fault |-> "none", status |-> 0, docId |-> 0]

(***************************************************************************)
(* Document Normalizer                                                     *)
(***************************************************************************)
MimeTypes == {"text/plain", "application/pdf", "application/vnd.ms-excel"}

\* outcomes of readPdf: extracted text, text that is blank after trim, reject
PdfOutcomes == Texts \cup {BlankText, "throw"}

NormalizeFileMut(mime, raw, sheets, pdf) ==
    IF mime = "application/pdf" /\ pdf \notin {"throw", BlankText}
    THEN [ok |-> TRUE, text |-> pdf]
    ELSE [ok |-> TRUE, text |-> raw]

\* Normalization of an uploaded file.  raw is the UTF-8 decoding of the
\* buffer with NUL bytes stripped, sheets the CSV rendering of the workbook
\* ("throw" when XLSX.read fails, BlankText when no sheet has content), pdf
\* the outcome of readPdf.  Result: [ok, text].
NormalizeFile(mime, raw, sheets, pdf) ==
    LET afterExcel == IF mime = "application/vnd.ms-excel"
                         /\ sheets # "throw" /\ sheets # BlankText
                      THEN sheets ELSE raw
    IN  IF mime = "application/pdf"
        THEN IF pdf = "throw" THEN [ok |-> FALSE, text |-> BlankText]
             ELSE IF pdf # BlankText THEN [ok |-> TRUE, text |-> pdf]
             ELSE [ok |-> FALSE, text |-> BlankText]
        ELSE [ok |-> TRUE, text |-> afterExcel]

\* Normalization of a fetched page: response.ok and non-empty body text
NormalizeUrl(fetchOk, text) ==
    IF ~fetchOk THEN [ok |-> FALSE, text |-> BlankText]
    ELSE IF text = BlankText THEN [ok |-> FALSE, text |-> BlankText]
    ELSE [ok |-> TRUE, text |-> text]

(***************************************************************************)
(* Ingestion orchestration                                                 *)
(***************************************************************************)
\* processKnowledgeDocument: the summary call and its parsing, then
\* generateEmbedding on the full content; an exception of any of them is
\* rethrown.  sum: outcome of the summary call; embed: outcome of
\* generateEmbedding.
ProcessKnowledgeDocument(sum, embed) ==
    LET s == SummaryOf(sum.raw)
    IN  IF ~sum.ok \/ s.threw
        THEN [ok |-> FALSE, fault |-> "summary", embedding |-> <<>>, summary |-> NoSummary]
        ELSE IF ~embed.ok
        THEN [ok |-> FALSE, fault |-> "embed", embedding |-> <<>>, summary |-> NoSummary]
        ELSE [ok |-> TRUE, fault |-> "none", embedding |-> embed.values,
              summary |-> s.summary]

EmbeddingValidMut(e) == IsNumericVector(e)

\* Array.isArray(embedding) && embedding.length > 0
EmbeddingValid(e) == IsNumericVector(e) /\ Len(e) > 0

NewDoc(id, content) ==
    [id |-> id, content |-> content, embedding |-> NULL, processed |-> FALSE]

\* storage.updateKnowledgeDocument(id, updates): rows with that id
UpdateKnowledgeDocument(rows, id, embedding, processed) ==
    { IF d.id = id
      THEN [d EXCEPT !.embedding = IF embedding = NULL THEN @ ELSE embedding,
                     !.processed = processed]
      ELSE d : d \in rows }

\* the unrecoverable inputs: a PDF whose parser fails or whose text is blank
UnrecoverableFile(mime, pdf) ==
    mime = "application/pdf" /\ pdf \in {"throw", BlankText}

\* a page fetched with a non-2xx status, or a page without body text
UnrecoverableUrl(fetchOk, text) == ~fetchOk \/ text = BlankText

\* the request as it leaves normalization and processKnowledgeDocument;
\* hard records that its input was unrecoverable
Ingested(kind, hard, norm, sum, pkd, embed) ==
    [IdleUpload EXCEPT
        !.kind = kind,
        !.summaryCall = IF ~norm.ok THEN "none"
                        ELSE IF sum.ok THEN "returned" ELSE "threw",
        !.summaryText = IF norm.ok /\ sum.ok THEN sum.raw ELSE <<>>,
        !.summary = IF norm.ok THEN pkd.summary ELSE NoSummary,
        !.content = norm.text,
        !.hardFail = hard,
        !.normalized = norm.ok,
        !.embedOutcome = IF ~norm.ok \/ pkd.fault = "summary" THEN "none"
                         ELSE IF ~embed.ok THEN "throw"
                         ELSE IF embed.values = <<>> THEN "empty" ELSE "vector",
        !.fault = IF norm.ok THEN pkd.fault ELSE "none",
        !.embedding = pkd.embedding,
        !.pc = IF norm.ok /\ pkd.ok THEN "create" ELSE "done",
        !.status = IF ~norm.ok THEN 400 ELSE IF ~pkd.ok THEN 500 ELSE 0]

\* outcomes of the summary call that the knowledge routes are run with
BasicSummaryResults == {SummaryThrow, [ok |-> TRUE, raw |-> <<Obj(SummaryObject("x"))>>]}

\* POST /api/agents/:agentId/knowledge, up to processKnowledgeDocument;
\* summaries are the outcomes of the summary call
UploadFileWith(summaries) ==
    /\ up.pc \in {"idle", "done"}
    /\ \/ up' = [IdleUpload EXCEPT !.kind = "file", !.pc = "done", !.status = 400]
       \/ \E mime \in MimeTypes, raw \in Texts \cup {BlankText},
             sum \in summaries, embed \in EmbedResults :
            \* the workbook is read for Excel types only, readPdf for PDFs only
            \E sheets \in IF mime = "application/vnd.ms-excel"
                           THEN {"c2", BlankText, "throw"} ELSE {"throw"},
               pdf \in IF mime = "application/pdf"
                        THEN PdfOutcomes ELSE {"throw"} :
                up' = Ingested("file", UnrecoverableFile(mime, pdf),
                               NormalizeFile(mime, raw, sheets, pdf), sum,
                               ProcessKnowledgeDocument(sum, embed), embed)
    /\ UNCHANGED <<docs, nextDocId, chatVars, overlapVars>>

UploadFile == UploadFileWith(BasicSummaryResults)

\* uploads over every text the summary call can return
UploadSummarized == UploadFileWith(SummaryResults)

\* POST /api/agents/:agentId/knowledge/url, up to processKnowledgeDocument
IngestUrl ==
    /\ up.pc \in {"idle", "done"}
    /\ \E urlValid \in BOOLEAN, fetched \in {"throw", "ok", "notok"},
          text \in Texts \cup {BlankText},
          sum \in BasicSummaryResults, embed \in EmbedResults :
        IF ~urlValid
        THEN up' = [IdleUpload EXCEPT !.kind = "url", !.pc = "done", !.status = 400]
        ELSE IF fetched = "throw"
        THEN up' = [IdleUpload EXCEPT !.kind = "url", !.pc = "done", !.status = 500,
                                      !.fault = "fetch"]
        ELSE up' = Ingested("url", UnrecoverableUrl(fetched = "ok", text),
                            NormalizeUrl(fetched = "ok", text), sum,
                            ProcessKnowledgeDocument(sum, embed), embed)
    /\ UNCHANGED <<docs, nextDocId, chatVars, overlapVars>>

\* storage.createKnowledgeDocument(docData)
UploadCreate ==
    /\ up.pc = "create"
    /\ nextDocId < MaxDocs
    /\ \/ /\ docs' = docs \cup {NewDoc(nextDocId + 1, up.content)}
          /\ nextDocId' = nextDocId + 1
          /\ up' = [up EXCEPT !.pc = "update", !.docId = nextDocId + 1]
       \/ /\ up' = [up EXCEPT !.pc = "done", !.status = 500, !.fault = "db"]
          /\ UNCHANGED <<docs, nextDocId>>
    /\ UNCHANGED <<chatVars, overlapVars>>

\* storage.updateKnowledgeDocument(document.id, ...) and the 201 response
UploadUpdate ==
    /\ up.pc = "update"
    /\ \/ /\ docs' = IF EmbeddingValid(up.embedding)
                     THEN UpdateKnowledgeDocument(docs, up.docId,
                                                  Stringify(up.embedding), TRUE)
                     ELSE UpdateKnowledgeDocument(docs, up.docId, NULL, FALSE)
          /\ up' = [up EXCEPT !.pc = "done", !.status = 201]
       \/ /\ up' = [up EXCEPT !.pc = "done", !.status = 500, !.fault = "db"]
          /\ UNCHANGED docs
    /\ UNCHANGED <<nextDocId, chatVars, overlapVars>>

\* DELETE /api/agents/:agentId/knowledge/:id
DeleteKnowledgeDocument ==
    /\ \E d \in docs : docs' = docs \ {d}
    /\ UNCHANGED <<nextDocId, up, chatVars, overlapVars>>

(***************************************************************************)
(* Chat turn                                                               *)
(***************************************************************************)
\* a new chat request is accepted while fewer messages than this are stored
MaxMessages == 1

Users == {"u1", "u2"}
Owner == "u1"
UserConv == "k1"
EmbedConv == "e1"
PublicKey == "pk1"
SessionId == "s1"
UserTexts == {"m1"}

\* public keys and session ids in the order nanoid produces them, and the
\* conversation created for each session
KeyNames == <<PublicKey, "pk2", "pk3", "pk4">>
SessionNames == <<SessionId, "s2", "s3", "s4">>
ConvNames == <<EmbedConv, "e2", "e3", "e4">>

\* publishes that may produce a key, and session requests that may create
\* a session
MaxKeys == 2
MaxSessions == 2

\* the parameters and body of an embed or publish request
NoRequest == [op |-> "none"]

\* a part of a request the handler answered without reading it
Unread == "unread"

EmbedRequest(op, key, origin, sid) ==
    [op |-> op, key |-> key, origin |-> origin, sid |-> sid]

IdleTurn ==
    [pc |-> "idle", kind |-> "none", conv |-> "", user |-> "", content |-> BlankText,
     history |-> <<>>, read |-> <<>>, candidates |-> <<>>,
     query |-> EmbedThrow, embedOutcome |-> "notcalled", ctx |-> <<>>,
     classified |-> "no", plannerRan |-> FALSE, planParsed |-> FALSE,
     decision |-> NoDecision, tool |-> "", executorRan |-> FALSE,
     sentTo |-> "", toolRun |-> NoRun, generated |-> FALSE, final |-> NoContent,
     req |-> NoRequest, newConversation |-> FALSE, session |-> "", status |-> 0,
     fault |-> "none"]

Message(role, content) == [role |-> role, content |-> content]

\* the messages of a turn completed before: the user's message and the
\* grounded answer stored for it
EarlierTurn ==
    <<Message("user", Content("user", "", {}, "m0")),
      Message("assistant", Content("grounded", "", {}, "a0"))>>

\* number of messages rows a conversation gained since the earlier turn
NewMessages(conv) ==
    Cardinality({i \in DOMAIN messages[conv] :
                    \A k \in DOMAIN EarlierTurn : messages[conv][i] # EarlierTurn[k]})

StoredMessages == NewMessages(UserConv) + NewMessages(EmbedConv)

CreateMessageMut(msgs, conv, role, content) ==
    [msgs EXCEPT ![conv] = <<Message(role, content)>>]

\* storage.createMessage
CreateMessage(msgs, conv, role, content) ==
    [msgs EXCEPT ![conv] = Append(@, Message(role, content))]

\* the handler's catch: the 500 response
Failed(t, fault) == [t EXCEPT !.pc = "done", !.status = 500, !.fault = fault]

HistoryWindow == 10

\* allMessages.slice(-10).map(...)
ChatHistory(msgs) ==
    LET n == Len(msgs)
        from == IF n > HistoryWindow THEN n - HistoryWindow + 1 ELSE 1
    IN  [i \in 1..(n - from + 1) |->
            [role |-> msgs[from + i - 1].role, text |-> msgs[from + i - 1].content.text]]

\* storage.getKnowledgeDocuments: the rows, newest first
RECURSIVE NewestFirst(_)
NewestFirst(rows) ==
    IF rows = {} THEN <<>>
    ELSE LET newest == CHOOSE d \in rows : \A e \in rows : e.id <= d.id
         IN <<newest>> \o NewestFirst(rows \ {newest})

RetrievableMut(doc) == TRUE

\* doc.processed && doc.embedding
Retrievable(doc) == doc.processed /\ doc.embedding # NULL

\* knowledgeDocuments.filter(...).map(...)
ProcessedDocs(rows) ==
    LET all == NewestFirst(rows)
        kept == SeqFilter(all, Retrievable)
    IN  [i \in 1..Len(kept) |->
            [id |-> kept[i].id, content |-> kept[i].content, embedding |-> kept[i].embedding]]

\* the title taken from the first user message
TitleOf(content) == content

UserMessageCount(msgs) == Cardinality({i \in 1..Len(msgs) : msgs[i].role = "user"})

(***************************************************************************)
(* Overlapping sends: POST /api/conversations/:conversationId/messages of  *)
(* the owner, one step per storage call that reads or writes the           *)
(* conversation                                                            *)
(***************************************************************************)
\* number of requests that may be in flight together
MaxSends == 2

Senders == 1..MaxSends

\* req.body.content of each request
SendTexts == <<"m1", "m2", "m3">>

IdleSend ==
    [pc |-> "idle", content |-> BlankText, history |-> <<>>, latest |-> BlankText,
     wrote |-> FALSE, fault |-> "none", status |-> 0]

\* no overlapping request and an empty FileUpload component
NoOverlap ==
    /\ sends = [r \in Senders |-> IdleSend]
    /\ files = <<>>
    /\ uploads = {}

\* [...messages].reverse().find(m => m.role === 'user')?.content || ''
LastUserMessage(history) ==
    LET us == {i \in 1..Len(history) : history[i].role = "user"}
    IN  IF us = {} THEN BlankText
        ELSE history[CHOOSE i \in us : \A j \in us : j <= i].text

\* the 500 response of the handler's catch
SendFailed(s) == [s EXCEPT !.pc = "done", !.fault = "db", !.status = 500]

\* storage.createMessage of the user message
SendStore ==
    /\ \E r \in Senders :
        /\ sends[r].pc = "idle"
        /\ LET s == [sends[r] EXCEPT !.content = SendTexts[r]]
           IN  \/ /\ messages' = CreateMessage(messages, UserConv, "user",
                                               UserContent(s.content))
                  /\ sends' = [sends EXCEPT ![r] = [s EXCEPT !.pc = "title"]]
               \/ /\ sends' = [sends EXCEPT ![r] = SendFailed(s)]
                  /\ UNCHANGED messages
    /\ UNCHANGED <<ingestVars, allowInternal, tools, agent, sessions, title, turn,
                   outbound, execStatus, files, uploads>>

\* storage.getConversation of the title block: the title read is blank or
\* not; an exception of the block is caught and logged
SendReadTitle ==
    /\ \E r \in Senders :
        /\ sends[r].pc = "title"
        /\ \/ sends' = [sends EXCEPT ![r].pc = IF title = BlankText THEN "count" ELSE "load"]
           \/ sends' = [sends EXCEPT ![r].pc = "load", ![r].fault = "title"]
    /\ UNCHANGED <<ingestVars, allowInternal, tools, agent, sessions, title, messages,
                   turn, outbound, execStatus, files, uploads>>

\* storage.getMessages of the title block and userMessagesCount <= 1
SendCount ==
    /\ \E r \in Senders :
        /\ sends[r].pc = "count"
        /\ \/ sends' = [sends EXCEPT ![r].pc =
                          IF UserMessageCount(messages[UserConv]) <= 1
                          THEN "write" ELSE "load"]
           \/ sends' = [sends EXCEPT ![r].pc = "load", ![r].fault = "title"]
    /\ UNCHANGED <<ingestVars, allowInternal, tools, agent, sessions, title, messages,
                   turn, outbound, execStatus, files, uploads>>

\* storage.updateConversation(conversationId, { title }, userId)
SendWriteTitle ==
    /\ \E r \in Senders :
        /\ sends[r].pc = "write"
        /\ \/ /\ title' = TitleOf(sends[r].content)
              /\ sends' = [sends EXCEPT ![r].pc = "load", ![r].wrote = TRUE]
           \/ /\ sends' = [sends EXCEPT ![r].pc = "load", ![r].fault = "title"]
              /\ UNCHANGED title
    /\ UNCHANGED <<ingestVars, allowInternal, tools, agent, sessions, messages, turn,
                   outbound, execStatus, files, uploads>>

\* storage.getMessages for the history, and the message the Composer takes
\* for the latest one
SendLoad ==
    /\ \E r \in Senders :
        /\ sends[r].pc = "load"
        /\ \/ LET history == ChatHistory(messages[UserConv])
              IN sends' = [sends EXCEPT ![r].pc = "answer", ![r].history = history,
                                        ![r].latest = LastUserMessage(history)]
           \/ sends' = [sends EXCEPT ![r] = SendFailed(@)]
    /\ UNCHANGED <<ingestVars, allowInternal, tools, agent, sessions, title, messages,
                   turn, outbound, execStatus, files, uploads>>

\* storage.createMessage of the assistant message and the response
SendAnswer ==
    /\ \E r \in Senders :
        /\ sends[r].pc = "answer"
        /\ \/ /\ messages' = CreateMessage(messages, UserConv, "assistant",
                                           ComposeWithKnowledge("answer"))
              /\ sends' = [sends EXCEPT ![r].pc = "done", ![r].status = 200]
           \/ /\ sends' = [sends EXCEPT ![r] = SendFailed(@)]
              /\ UNCHANGED messages
    /\ UNCHANGED <<ingestVars, allowInternal, tools, agent, sessions, title, turn,
                   outbound, execStatus, files, uploads>>

SendsNext ==
    \/ SendStore
    \/ SendReadTitle
    \/ SendCount
    \/ SendWriteTitle
    \/ SendLoad
    \/ SendAnswer

\* GET /api/conversations/:conversationId/messages
GetMessages ==
    /\ turn.pc \in {"idle", "done"}
    /\ \E u \in Users :
        LET t == [IdleTurn EXCEPT !.kind = "read", !.conv = UserConv, !.user = u]
        IN  \/ turn' = [t EXCEPT !.pc = "done", !.status = 200,
                                 !.read = messages[UserConv]]
            \/ turn' = Failed(t, "db")
    /\ UNCHANGED <<ingestVars, overlapVars, allowInternal, tools, agent, sessions, title, messages,
                   outbound, execStatus>>

\* POST /api/conversations/:conversationId/messages: the user message is
\* stored, then the title is set from the first message
PostMessage ==
    /\ turn.pc \in {"idle", "done"}
    /\ StoredMessages < MaxMessages
    /\ \E u \in Users, c \in UserTexts :
        \/ /\ messages' = CreateMessage(messages, UserConv, "user", UserContent(c))
           /\ turn' = [IdleTurn EXCEPT !.pc = "load", !.kind = "auth", !.conv = UserConv,
                                       !.user = u, !.content = c]
           /\ title' = IF u = Owner /\ title = BlankText
                          /\ UserMessageCount(messages'[UserConv]) <= 1
                       THEN TitleOf(c) ELSE title
        \/ /\ turn' = Failed([IdleTurn EXCEPT !.kind = "auth", !.conv = UserConv,
                                              !.user = u, !.content = c], "db")
           /\ UNCHANGED <<messages, title>>
    /\ UNCHANGED <<ingestVars, overlapVars, allowInternal, tools, agent, sessions, outbound, execStatus>>

\* getConversation, getAgent, the history and the processed documents
LoadContext ==
    /\ turn.pc = "load"
    /\ IF turn.user # Owner
       THEN turn' = [turn EXCEPT !.pc = "done", !.status = 404]
       ELSE turn' = [turn EXCEPT !.pc = "retrieve",
                                 !.history = ChatHistory(messages[turn.conv]),
                                 !.candidates = ProcessedDocs(docs)]
    /\ UNCHANGED <<ingestVars, overlapVars, allowInternal, tools, agent, sessions, title, messages,
                   outbound, execStatus>>

\* :publicKey of an embed request: a key nanoid has produced or may
\* produce, or another text
RequestKeys == {KeyNames[i] : i \in 1..MaxKeys} \cup {"other"}

\* storage.getAgentByPublicKey(publicKey) finds the agent
AgentByPublicKey(key) == key = agent.publicKey

\* storage.getEmbeddedConversation(agent.id, sessionId) finds a conversation
EmbeddedConversation(sid) == sid \in sessions

\* POST /api/embed/:publicKey/messages up to the retrieval
EmbedPostMessage ==
    /\ turn.pc \in {"idle", "done"}
    /\ StoredMessages < MaxMessages
    /\ \E key \in RequestKeys :
        LET t == [IdleTurn EXCEPT !.kind = "embed", !.conv = EmbedConv,
                                  !.req = EmbedRequest("post", key, Unread, Unread)]
        IN  IF ~AgentByPublicKey(key) \/ ~agent.allowEmbed
            THEN turn' = [t EXCEPT !.pc = "done", !.status = 404] /\ UNCHANGED messages
            ELSE \E origin \in RequestOrigins :
                IF ~OriginAllowed(agent.origins, origin)
                THEN /\ turn' = [t EXCEPT !.pc = "done", !.status = 403,
                                          !.req.origin = origin]
                     /\ UNCHANGED messages
                ELSE \E sid \in {SessionId, "other", ""}, c \in UserTexts \cup {BlankText} :
                    LET a == [t EXCEPT !.content = c, !.req.origin = origin,
                                       !.req.sid = sid]
                    IN  IF sid = "" \/ c = BlankText
                        THEN /\ turn' = [a EXCEPT !.pc = "done", !.status = 400]
                             /\ UNCHANGED messages
                        ELSE IF ~EmbeddedConversation(sid)
                        THEN /\ turn' = [a EXCEPT !.pc = "done", !.status = 404]
                             /\ UNCHANGED messages
                        ELSE \/ /\ messages' = CreateMessage(messages, EmbedConv, "user",
                                                              UserContent(c))
                                /\ turn' = [a EXCEPT
                                              !.pc = "retrieve",
                                              !.history = ChatHistory(messages'[EmbedConv]),
                                              !.candidates = ProcessedDocs(docs)]
                             \/ /\ turn' = Failed(a, "db")
                                /\ UNCHANGED messages
    /\ UNCHANGED <<ingestVars, overlapVars, allowInternal, tools, agent, sessions, title, outbound,
                   execStatus>>

(***************************************************************************)
(* Publishing and the embed API                                            *)
(***************************************************************************)
\* position of a key or session id among those nanoid produced; 0 for none
IndexIn(names, x) ==
    IF \E i \in 1..Len(names) : names[i] = x
    THEN CHOOSE i \in 1..Len(names) : names[i] = x ELSE 0

\* req.body.embedAllowedOrigins as the list of its rules
OriginLists == {<<>>, <<"*">>, <<".example.com">>, <<"https://other.org">>}

\* a body without embedAllowedOrigins
Unset == <<"unset">>

PublishedKeyMut(key, allowEmbed, rotate, fresh) ==
    IF allowEmbed THEN fresh ELSE key

\* the publicKey the publish handler stores; fresh is nanoid(24)
PublishedKey(key, allowEmbed, rotate, fresh) ==
    IF allowEmbed /\ (rotate \/ key = "") THEN fresh ELSE key

\* POST /api/agents/:id/publish
Publish ==
    /\ turn.pc \in {"idle", "done"}
    /\ \E u \in Users :
        LET t == [IdleTurn EXCEPT !.kind = "publish", !.user = u,
                                  !.req = [op |-> "publish", read |-> FALSE,
                                           allowEmbed |-> FALSE, rotate |-> FALSE]]
        IN  IF u # Owner
            THEN turn' = [t EXCEPT !.pc = "done", !.status = 404] /\ UNCHANGED agent
            ELSE \E allowEmbed \in BOOLEAN, rotate \in BOOLEAN,
                    origins \in OriginLists \cup {Unset} :
                LET a == [t EXCEPT !.req.read = TRUE, !.req.allowEmbed = allowEmbed,
                                   !.req.rotate = rotate]
                    fresh == KeyNames[IndexIn(KeyNames, agent.publicKey) + 1]
                IN  /\ (allowEmbed /\ (rotate \/ agent.publicKey = ""))
                          => IndexIn(KeyNames, agent.publicKey) < MaxKeys
                    /\ \/ /\ agent' = [allowEmbed |-> allowEmbed,
                                        publicKey |-> PublishedKey(agent.publicKey,
                                                                   allowEmbed, rotate, fresh),
                                        origins |-> IF origins = Unset THEN agent.origins
                                                    ELSE origins]
                          /\ turn' = [a EXCEPT !.pc = "done", !.status = 200]
                       \/ /\ turn' = Failed(a, "db")
                          /\ UNCHANGED agent
    /\ UNCHANGED <<ingestVars, overlapVars, allowInternal, tools, sessions, title,
                   messages, outbound, execStatus>>

\* sessionId of the body or the query of an embed request
RequestSessions == {SessionNames[i] : i \in 1..MaxSessions} \cup {"other", ""}

\* POST /api/embed/:publicKey/session
EmbedSession ==
    /\ turn.pc \in {"idle", "done"}
    /\ \E key \in RequestKeys :
        LET t == [IdleTurn EXCEPT !.kind = "session",
                                  !.req = EmbedRequest("session", key, Unread, Unread)]
            fresh == SessionNames[Cardinality(sessions) + 1]
        IN  IF ~AgentByPublicKey(key) \/ ~agent.allowEmbed
            THEN turn' = [t EXCEPT !.pc = "done", !.status = 404] /\ UNCHANGED sessions
            ELSE \E origin \in RequestOrigins :
                IF ~OriginAllowed(agent.origins, origin)
                THEN /\ turn' = [t EXCEPT !.pc = "done", !.status = 403,
                                          !.req.origin = origin]
                     /\ UNCHANGED sessions
                ELSE \E sid \in RequestSessions, newConversation \in BOOLEAN :
                    LET a == [t EXCEPT !.req.origin = origin, !.req.sid = sid,
                                       !.newConversation = newConversation]
                        reused == sid # "" /\ ~newConversation /\ EmbeddedConversation(sid)
                        given == IF reused THEN sid ELSE fresh
                    IN  /\ ~reused => Cardinality(sessions) < MaxSessions
                        /\ \/ /\ sessions' = sessions \cup {given}
                              /\ turn' = [a EXCEPT
                                            !.pc = "done", !.status = 200,
                                            !.session = given,
                                            !.conv = ConvNames[IndexIn(SessionNames, given)]]
                           \/ /\ turn' = Failed(a, "db")
                              /\ UNCHANGED sessions
    /\ UNCHANGED <<ingestVars, overlapVars, allowInternal, tools, agent, title, messages,
                   outbound, execStatus>>

\* GET /api/embed/:publicKey/messages; msgs.slice(-50) is every message
\* while fewer than fifty are stored
EmbedGetMessages ==
    /\ turn.pc \in {"idle", "done"}
    /\ \E key \in RequestKeys :
        LET t == [IdleTurn EXCEPT !.kind = "embedread", !.conv = EmbedConv,
                                  !.req = EmbedRequest("read", key, Unread, Unread)]
        IN  IF ~AgentByPublicKey(key) \/ ~agent.allowEmbed
            THEN turn' = [t EXCEPT !.pc = "done", !.status = 404]
            ELSE \E origin \in RequestOrigins :
                IF ~OriginAllowed(agent.origins, origin)
                THEN turn' = [t EXCEPT !.pc = "done", !.status = 403, !.req.origin = origin]
                ELSE \E sid \in {SessionId, "other", ""} :
                    LET a == [t EXCEPT !.req.origin = origin, !.req.sid = sid]
                    IN  turn' = IF sid = ""
                                THEN [a EXCEPT !.pc = "done", !.status = 400]
                                ELSE IF ~EmbeddedConversation(sid)
                                THEN [a EXCEPT !.pc = "done", !.status = 404]
                                ELSE [a EXCEPT !.pc = "done", !.status = 200,
                                               !.read = messages[EmbedConv]]
    /\ UNCHANGED <<ingestVars, overlapVars, allowInternal, tools, agent, sessions, title,
                   messages, outbound, execStatus>>

\* findRelevantKnowledge(content, processedDocs); results are the outcomes
\* of the query embedding
RetrieveWith(results) ==
    /\ turn.pc = "retrieve"
    /\ \E qe \in results :
        LET r == FindRelevantKnowledge(turn.candidates, qe)
            t == [turn EXCEPT
                    !.ctx = r.ctx,
                    !.query = IF r.embedCalled THEN qe ELSE @,
                    !.embedOutcome = IF ~r.embedCalled THEN "notcalled"
                                     ELSE IF qe.ok THEN "ok" ELSE "throw"]
        IN turn' = IF r.threw THEN Failed(t, "retrieval")
                   ELSE [t EXCEPT !.pc = IF turn.kind = "auth" THEN "plan" ELSE "compose"]
    /\ UNCHANGED <<ingestVars, overlapVars, allowInternal, tools, agent, sessions, title, messages,
                   outbound, execStatus>>

Retrieve == RetrieveWith(EmbedResults)

(***************************************************************************)
(* The Retriever over candidate lists of every shape                       *)
(***************************************************************************)
MaxCandidates == 4

\* a stored embedding text that is not JSON
Malformed == <<"notjson">>

\* stored embedding texts: not JSON, the empty array, the zero vector,
\* vectors of similarity 1, 0.89, 0.71, 0.24 and -1 with the query <<1, 0>>,
\* and a vector of another dimension
CandidateEmbeddings ==
    {Malformed, Stringify(<<>>), Stringify(<<0, 0>>), Stringify(<<1, 0>>),
     Stringify(<<2, 1>>), Stringify(<<1, 1>>), Stringify(<<1, 4>>), Stringify(<<-1, 0>>),
     Stringify(<<1>>)}

CandidateNames == <<"d1", "d2", "d3", "d4", "d5", "d6">>

\* the candidate lists of at most max documents
CandidateLists(max) ==
    UNION {{[i \in 1..n |-> [id |-> i, content |-> CandidateNames[i], embedding |-> e[i]]] :
               e \in [1..n -> CandidateEmbeddings]} : n \in 0..max}

\* outcomes of the query embedding: a unit vector, the zero vector, the
\* empty vector, an exception
QueryResults ==
    {[ok |-> TRUE, values |-> <<1, 0>>], [ok |-> TRUE, values |-> <<0, 0>>],
     [ok |-> TRUE, values |-> <<>>], EmbedThrow}

RetrieveRanked == RetrieveWith(QueryResults)

\* the owner's turn right before findRelevantKnowledge, for every candidate
\* list
RetrieveInit ==
    /\ docs = {}
    /\ nextDocId = 0
    /\ up = IdleUpload
    /\ allowInternal = FALSE
    /\ tools = {}
    /\ agent = [allowEmbed |-> FALSE, publicKey |-> "", origins |-> <<>>]
    /\ sessions = {}
    /\ title = TitleOf("m1")
    /\ messages = [c \in {UserConv, EmbedConv} |->
                     IF c = UserConv THEN <<Message("user", UserContent("m1"))>> ELSE <<>>]
    /\ \E cs \in CandidateLists(MaxCandidates) :
          turn = [IdleTurn EXCEPT !.pc = "retrieve", !.kind = "auth", !.conv = UserConv,
                                  !.user = Owner, !.content = "m1",
                                  !.history = ChatHistory(messages[UserConv]),
                                  !.candidates = cs]
    /\ outbound = {}
    /\ execStatus = 0
    /\ NoOverlap

RetrieveNext == RetrieveRanked

SpecRetrieve == RetrieveInit /\ [][RetrieveNext]_vars

\* the Tool Planner call and its three branches; a clarification is stored
\* and returned at once
Plan ==
    /\ turn.pc = "plan"
    /\ IF tools = {}
       THEN turn' = [turn EXCEPT !.pc = "compose"] /\ UNCHANGED messages
       ELSE \/ turn' = Failed(turn, "model") /\ UNCHANGED messages
            \/ \E raw \in PlannerOutputs :
                LET p == ParseDecision(raw)
                    d == p.decision
                    t == [turn EXCEPT !.plannerRan = TRUE, !.planParsed = p.ok,
                                      !.decision = d]
                    found == FindTool(tools, d.toolId)
                IN  IF p.threw
                    THEN turn' = Failed(t, "planparse") /\ UNCHANGED messages
                    ELSE IF d.action = "ask" /\ d.toolId # "" /\ found # {}
                    THEN LET tool == CHOOSE x \in found : TRUE
                             text == Clarification(tool, MissingList(d))
                         IN \/ /\ messages' = CreateMessage(messages, turn.conv,
                                                            "assistant", text)
                               /\ turn' = [t EXCEPT !.pc = "done", !.status = 200,
                                                    !.tool = tool.id, !.final = text]
                            \/ /\ turn' = Failed(t, "db")
                               /\ UNCHANGED messages
                    ELSE IF d.action = "call" /\ d.toolId # "" /\ found # {}
                    THEN /\ turn' = [t EXCEPT !.pc = "exec",
                                              !.tool = (CHOOSE x \in found : TRUE).id]
                         /\ UNCHANGED messages
                    ELSE turn' = [t EXCEPT !.pc = "compose"] /\ UNCHANGED messages
    /\ UNCHANGED <<ingestVars, overlapVars, allowInternal, tools, agent, sessions, title, outbound,
                   execStatus>>

\* the inline execution of the selected tool
ExecTool ==
    /\ turn.pc = "exec"
    /\ \E tool \in FindTool(tools, turn.tool), net \in NetOutcomes :
        LET r == ExecuteInTurn(tool, allowInternal, net)
        IN  /\ turn' = IF r.threw
                       THEN Failed([turn EXCEPT !.executorRan = TRUE], "toolexec")
                       ELSE [turn EXCEPT !.pc = "compose", !.executorRan = TRUE,
                                         !.sentTo = r.host, !.toolRun = r.run]
            /\ outbound' = IF r.sent THEN outbound \cup {[site |-> "chat", host |-> r.host]}
                           ELSE outbound
    /\ UNCHANGED <<ingestVars, overlapVars, allowInternal, tools, agent, sessions, title, messages,
                   execStatus>>

\* the final answer: from the tool result, or generateAgentResponse
Compose ==
    /\ turn.pc = "compose"
    /\ \/ turn' = Failed([turn EXCEPT !.generated = TRUE], "model")
       \/ /\ turn.toolRun # NoRun
          /\ \E text \in {"answer", BlankText} :
                turn' = [turn EXCEPT !.pc = "persist", !.generated = TRUE,
                                     !.final = ComposeFromTool(text)]
       \/ /\ turn.toolRun = NoRun
          /\ IsBlankContext(turn.ctx)
          /\ \E raw \in ClassifierOutputs :
                turn' = [turn EXCEPT !.pc = "persist", !.generated = TRUE,
                                     !.classified = ClassifiedAs(raw),
                                     !.final = ComposeWithoutKnowledge(raw)]
       \/ /\ turn.toolRun = NoRun
          /\ ~IsBlankContext(turn.ctx)
          /\ \E text \in {"answer", BlankText} :
                turn' = [turn EXCEPT !.pc = "persist", !.generated = TRUE,
                                     !.final = ComposeWithKnowledge(text)]
    /\ UNCHANGED <<ingestVars, overlapVars, allowInternal, tools, agent, sessions, title, messages,
                   outbound, execStatus>>

\* the assistant message is stored and the turn answered
Persist ==
    /\ turn.pc = "persist"
    /\ \/ /\ messages' = CreateMessage(messages, turn.conv, "assistant", turn.final)
          /\ turn' = [turn EXCEPT !.pc = "done", !.status = 200]
       \/ /\ turn' = Failed(turn, "db")
          /\ UNCHANGED messages
    /\ UNCHANGED <<ingestVars, overlapVars, allowInternal, tools, agent, sessions, title, outbound,
                   execStatus>>

MaxExecutes == 1

\* POST /api/tools/:id/execute
DirectExecute ==
    /\ turn.pc \in {"idle", "done"}
    /\ Cardinality({r \in outbound : r.site = "execute"}) < MaxExecutes
    /\ \E id \in {"t1", "tX"}, net \in NetOutcomes :
        LET found == FindTool(tools, id)
            r == ExecuteDirect(CHOOSE x \in found : TRUE, allowInternal, net)
        IN  IF found = {}
            THEN execStatus' = 404 /\ UNCHANGED outbound
            ELSE /\ execStatus' = r.status
                 /\ outbound' = IF r.sent
                                THEN outbound \cup {[site |-> "execute", host |-> r.host]}
                                ELSE outbound
    /\ UNCHANGED <<ingestVars, overlapVars, allowInternal, tools, agent, sessions, title, messages,
                   turn>>

\* knowledge stores the ingestion leaves behind: a row is unprocessed
\* without an embedding, or processed with the stored vector
StoredDoc(id, content, vec) ==
    [id |-> id, content |-> content,
     embedding |-> IF vec = <<>> THEN NULL ELSE Stringify(vec),
     processed |-> vec # <<>>]

KnowledgeStores ==
    {{}} \cup {{StoredDoc(1, "c1", v)} : v \in EmbedVectors}
         \cup {{StoredDoc(1, "c1", v), StoredDoc(2, "c2", w)} : v, w \in EmbedVectors}

ChatInit(stores, catalogs, overrides, histories) ==
    /\ docs \in stores
    /\ nextDocId = MaxDocs
    /\ up = IdleUpload
    /\ allowInternal \in overrides
    /\ tools \in catalogs
    /\ agent = [allowEmbed |-> TRUE, publicKey |-> PublicKey,
                origins |-> <<".example.com">>]
    /\ sessions = {SessionId}
    /\ messages \in {[c \in {UserConv, EmbedConv} |-> IF c = UserConv THEN h ELSE <<>>] :
                        h \in histories}
    /\ title = IF messages[UserConv] = <<>> THEN BlankText
               ELSE TitleOf(messages[UserConv][1].content.text)
    /\ turn = IdleTurn
    /\ outbound = {}
    /\ execStatus = 0
    /\ NoOverlap

ChatNext ==
    \/ PostMessage
    \/ LoadContext
    \/ EmbedPostMessage
    \/ Retrieve
    \/ Plan
    \/ ExecTool
    \/ Compose
    \/ Persist

\* chat turns over every knowledge store, with no tool, one public tool or
\* one tool whose endpoint is not a URL, in a conversation that is new or
\* holds an earlier turn
Init ==
    ChatInit(KnowledgeStores,
             {{}, {Tool("GET", Url("http:", "", "api.example.com"))},
              {Tool("GET", Url("http:", "", "exa mple.com"))}},
             {FALSE}, {<<>>, EarlierTurn})

Next == ChatNext \/ GetMessages

Spec == Init /\ [][Next]_vars

\* chat turns and direct executions over every tool catalog, with one
\* processed document stored
ToolsInit ==
    ChatInit({{StoredDoc(1, "c1", <<1, 0>>)}}, ToolCatalogs \ {{}}, BOOLEAN,
             {<<>>})

ToolsNext == ChatNext \/ DirectExecute

SpecTools == ToolsInit /\ [][ToolsNext]_vars

IngestInit ==
    /\ docs = {}
    /\ nextDocId = 0
    /\ up = IdleUpload
    /\ allowInternal = FALSE
    /\ tools = {}
    /\ agent = [allowEmbed |-> FALSE, publicKey |-> "", origins |-> <<>>]
    /\ sessions = {}
    /\ title = BlankText
    /\ messages = [c \in {UserConv, EmbedConv} |-> <<>>]
    /\ turn = IdleTurn
    /\ outbound = {}
    /\ execStatus = 0
    /\ NoOverlap

IngestNext ==
    \/ UploadFile
    \/ IngestUrl
    \/ UploadCreate
    \/ UploadUpdate
    \/ DeleteKnowledgeDocument

SpecIngest == IngestInit /\ [][IngestNext]_vars

\* uploads with every summary output
SummaryNext ==
    \/ UploadSummarized
    \/ UploadCreate
    \/ UploadUpdate

\* an empty store in which one more row can be inserted
SummaryInit ==
    /\ docs = {}
    /\ nextDocId = MaxDocs - 1
    /\ up = IdleUpload
    /\ allowInternal = FALSE
    /\ tools = {}
    /\ agent = [allowEmbed |-> FALSE, publicKey |-> "", origins |-> <<>>]
    /\ sessions = {}
    /\ title = BlankText
    /\ messages = [c \in {UserConv, EmbedConv} |-> <<>>]
    /\ turn = IdleTurn
    /\ outbound = {}
    /\ execStatus = 0
    /\ NoOverlap

SpecSummary == SummaryInit /\ [][SummaryNext]_vars

(***************************************************************************)
(* The FileUpload component: the files state and the uploadFile calls that *)
(* await api.uploadKnowledgeDocument                                       *)
(***************************************************************************)
\* files the user may drop
MaxFiles == 3

FileNames == <<"f1", "f2", "f3", "f4">>

FileWithStatus(file, status, progress) ==
    [file |-> file, status |-> status, progress |-> progress]

\* prev.map((f, i) => i === index ? { ...f, status, progress } : f)
SetStatusAt(prev, index, status, progress) ==
    [i \in DOMAIN prev |->
        IF i = index THEN FileWithStatus(prev[i].file, status, progress) ELSE prev[i]]

\* onDrop: the accepted file is appended as pending
OnDrop ==
    /\ \E n \in 1..MaxFiles :
        /\ \A i \in DOMAIN files : IndexIn(FileNames, files[i].file) < n
        /\ \A u \in uploads : IndexIn(FileNames, u.file) < n
        /\ \/ n = 1
           \/ \E i \in DOMAIN files : files[i].file = FileNames[n - 1]
           \/ \E u \in uploads : u.file = FileNames[n - 1]
        /\ files' = Append(files, FileWithStatus(FileNames[n], "pending", 0))
    /\ UNCHANGED <<ingestVars, chatVars, sends, uploads>>

\* uploadAll: uploadFile(fileWithStatus, index) for every pending entry, up
\* to its await
UploadAll ==
    /\ \E i \in DOMAIN files : files[i].status = "pending"
    /\ files' = [i \in DOMAIN files |->
                    IF files[i].status = "pending"
                    THEN FileWithStatus(files[i].file, "uploading", 0) ELSE files[i]]
    /\ uploads' = uploads \cup {[file |-> files[i].file, index |-> i] :
                                   i \in {k \in DOMAIN files : files[k].status = "pending"}}
    /\ UNCHANGED <<ingestVars, chatVars, sends>>

\* removeFile(index); the button is disabled while the entry is uploading
RemoveFile ==
    /\ \E index \in DOMAIN files :
        /\ files[index].status # "uploading"
        /\ files' = [i \in 1..(Len(files) - 1) |->
                        IF i < index THEN files[i] ELSE files[i + 1]]
    /\ UNCHANGED <<ingestVars, chatVars, sends, uploads>>

\* api.uploadKnowledgeDocument settles: the rest of uploadFile
UploadSettled ==
    /\ \E u \in uploads, ok \in BOOLEAN :
        /\ files' = IF ok THEN SetStatusAt(files, u.index, "success", 100)
                    ELSE SetStatusAt(files, u.index, "error", 0)
        /\ uploads' = uploads \ {u}
    /\ UNCHANGED <<ingestVars, chatVars, sends>>

FilesNext ==
    \/ OnDrop
    \/ UploadAll
    \/ RemoveFile
    \/ UploadSettled

\* the component as mounted: no file
FilesInit == IngestInit

SpecFiles == FilesInit /\ [][FilesNext]_vars

\* an agent that was never published or is published for .example.com, no
\* embedded session and no document
EmbedInit ==
    /\ docs = {}
    /\ nextDocId = MaxDocs
    /\ up = IdleUpload
    /\ allowInternal = FALSE
    /\ tools = {}
    /\ agent \in {[allowEmbed |-> FALSE, publicKey |-> "", origins |-> <<>>],
                  [allowEmbed |-> TRUE, publicKey |-> PublicKey,
                   origins |-> <<".example.com">>]}
    /\ sessions = {}
    /\ title = BlankText
    /\ messages = [c \in {UserConv, EmbedConv} |-> <<>>]
    /\ turn = IdleTurn
    /\ outbound = {}
    /\ execStatus = 0
    /\ NoOverlap

EmbedNext ==
    \/ Publish
    \/ EmbedSession
    \/ EmbedPostMessage
    \/ EmbedGetMessages
    \/ Retrieve
    \/ Compose
    \/ Persist

SpecEmbed == EmbedInit /\ [][EmbedNext]_vars

\* a new conversation of the owner, or one that holds an earlier turn, and
\* requests that have not started
SendsInit == ChatInit({{}}, {{}}, {FALSE}, {<<>>, EarlierTurn})

SpecSends == SendsInit /\ [][SendsNext]_vars

(***************************************************************************)
(* Properties                                                              *)
(***************************************************************************)
\* positions of a chat request between its user message and its response
InFlight == {"load", "retrieve", "plan", "exec", "compose", "persist"}

AssistantMessages(conv) ==
    {i \in 1..Len(messages[conv]) : messages[conv][i].role = "assistant"}

LastMessage(conv) == messages[conv][Len(messages[conv])]

\* C1: in every state of the knowledge store, a document with
\* processed = true has a stored embedding that parses to a non-empty
\* numeric vector.
C1_ProcessedHasEmbedding ==
    \A d \in docs :
        d.processed =>
            /\ d.embedding # NULL
            /\ JsonParse(d.embedding).ok
            /\ JsonParse(d.embedding).value \in Seq(Int)
            /\ Len(JsonParse(d.embedding).value) > 0

\* a processed document is stored, and a later request failed after its row
\* was inserted
C1_Witness ==
    /\ \E d \in docs : d.processed /\ d.id # up.docId
    /\ up.pc = "done" /\ up.status = 500 /\ up.docId # 0

\* C2: when normalization succeeds and the embedding call throws or
\* returns the empty vector, the request answers 201 and its document is
\* stored with processed = false.
C2_EmbedFailureDegrades ==
    (/\ up.pc = "done"
     /\ up.normalized
     /\ up.embedOutcome \in {"throw", "empty"}
     /\ up.fault \in {"none", "embed"})
    => /\ up.status = 201
       /\ up.docId # 0
       /\ \A d \in docs : d.id = up.docId => ~d.processed

\* C3: a request whose input is unrecoverable (PDF without text or
\* unparseable, page fetched with a non-2xx status, page without text) is
\* answered 400 at once, inserts no row and leaves the rows as they were.
C3_RejectsUnrecoverable ==
    [][up'.hardFail =>
          /\ up'.pc = "done"
          /\ up'.status = 400
          /\ up'.docId = 0
          /\ (up' # up => docs' = docs /\ nextDocId' = nextDocId)]_vars

\* an unrecoverable upload was rejected while the store holds a document
C3_Witness ==
    /\ up.hardFail /\ up.pc = "done" /\ up.status = 400
    /\ docs # {}

\* C4: in a chat turn of either kind, every candidate handed to the
\* Retriever is a row with processed = true and a stored embedding, and
\* every content in the knowledge context is the content of such a row.
C4_OnlyProcessedRetrieved ==
    /\ \A i \in 1..Len(turn.candidates) :
          \E d \in docs : /\ d.id = turn.candidates[i].id
                          /\ d.processed /\ d.embedding # NULL
    /\ \A j \in 1..Len(turn.ctx) :
          \E d \in docs : /\ d.content = turn.ctx[j]
                          /\ d.processed /\ d.embedding # NULL

\* a turn answered from a context while an unprocessed row is stored
C4_Witness ==
    /\ \E d \in docs : ~d.processed
    /\ turn.pc = "done" /\ turn.status = 200
    /\ turn.ctx # <<>>

\* C5 as stated: whenever the planner's decision is ask, the Tool Executor
\* and the final-answer generation are not run and the assistant message of
\* the turn is a clarification naming the tool and the missing parameters.
C5_AskShortCircuits ==
    (turn.plannerRan /\ turn.decision.action = "ask")
    => /\ ~turn.executorRan
       /\ ~turn.generated
       /\ (turn.pc = "done" /\ turn.status = 200
             => /\ turn.final.kind = "clarification"
                /\ MissingList(turn.decision) \subseteq turn.final.names)

\* C5 as amended: when the decision is ask and its toolId names a tool of
\* the agent, the turn ends at the planner, without executor or generation,
\* and the message stored is a clarification naming that tool and every
\* name of the plan's missing list; an ask naming no tool of the agent runs
\* no tool.
C5_AskKnownToolShortCircuits ==
    (turn.plannerRan /\ turn.decision.action = "ask")
    => IF FindTool(tools, turn.decision.toolId) # {}
       THEN /\ turn.pc = "done"
            /\ ~turn.executorRan /\ ~turn.generated /\ turn.sentTo = ""
            /\ turn.status = 200 =>
                 /\ LastMessage(turn.conv).role = "assistant"
                 /\ LastMessage(turn.conv).content.kind = "clarification"
                 /\ \E t \in tools : /\ t.id = turn.decision.toolId
                                     /\ LastMessage(turn.conv).content.tool = t.name
                 /\ MissingList(turn.decision) \subseteq LastMessage(turn.conv).content.names
       ELSE ~turn.executorRan /\ turn.sentTo = "" /\ turn.tool = ""

\* a clarification for two missing parameters was stored
C5_Witness ==
    /\ turn.plannerRan /\ turn.decision.action = "ask"
    /\ turn.pc = "done" /\ turn.status = 200
    /\ turn.decision.missing.names = {"city", "units"}
    /\ Cardinality(AssistantMessages(turn.conv)) = 1

\* C6: an outbound request of a chat turn is produced only for a call plan
\* that gives a value for every required parameter of the selected tool.
C6_CallRevalidated ==
    turn.sentTo # ""
    => \A t \in FindTool(tools, turn.tool) :
          \A n \in RequiredParams(t) : turn.decision.params[n] # "absent"

\* C7: while the override is unset, no outbound tool request, from a chat
\* turn or from the execute endpoint, goes to localhost, 127.0.0.1 or ::1.
C7_NoLoopbackRequests ==
    ~allowInternal => \A r \in outbound : r.host \notin LoopbackHosts

\* C8: once a call plan has selected a tool, a failure of its execution
\* never ends the turn with an error: the turn goes on to the Composer with
\* the failure as the tool result.
C8_ToolFailureCaptured ==
    turn.executorRan
    => /\ turn.fault # "toolexec"
       /\ turn.toolRun # NoRun

\* C9: a planner output that does not parse is handled as none: no tool is
\* selected or executed, the turn goes on to the generative answer, and the
\* answer stored is the one of generateAgentResponse.
C9_UnparsedPlanIsNone ==
    (turn.plannerRan /\ ~turn.planParsed)
    => /\ turn.decision = NoDecision
       /\ turn.tool = "" /\ ~turn.executorRan /\ turn.toolRun = NoRun
       /\ turn.fault # "planparse"
       /\ turn.pc \in {"compose", "persist", "done"}
       /\ (turn.pc = "done" => turn.generated)
       /\ (turn.pc = "done" /\ turn.status = 200
             => turn.final.kind \in {"grounded", "casual", "info", "insufficient"})

\* an unparsed plan ended in a stored generative answer
C9_Witness ==
    /\ turn.plannerRan /\ ~turn.planParsed
    /\ turn.pc = "done" /\ turn.status = 200
    /\ Cardinality(AssistantMessages(turn.conv)) = 1

\* C10 as stated: a turn whose query embedding failed ends with the 500
\* response and stores no assistant message.
C10_EmbedFailureIs500 ==
    (turn.embedOutcome = "throw" /\ turn.pc = "done")
    => /\ turn.status = 500
       /\ AssistantMessages(turn.conv) = {}

\* C10 as amended: when the query embedding fails, the Retriever returns
\* the empty context and the turn goes on; the failure is not the cause of
\* an error response, and an answer composed without a tool is the
\* no-knowledge answer.
C10_EmbedFailureEmptyContext ==
    turn.embedOutcome = "throw"
    => /\ turn.ctx = <<>>
       /\ turn.fault # "retrieval"
       /\ turn.pc # "retrieve"
       /\ (turn.pc = "done" /\ turn.status = 200 /\ turn.toolRun = NoRun
             /\ turn.final.kind # "clarification"
             => turn.final.kind \in {"casual", "info", "insufficient"})

\* the query embedding failed and the turn stored an assistant message
C10_Witness ==
    /\ turn.embedOutcome = "throw"
    /\ turn.pc = "done" /\ turn.status = 200
    /\ Cardinality(AssistantMessages(turn.conv)) = 1

\* C11: a turn that fails after its user message was stored leaves that
\* message as the last one of the conversation: the request appends exactly
\* the user message, and no step of the turn up to and including the failing
\* one changes any message, so no assistant message is stored for the turn
\* and the earlier messages stay as they were.
C11_FailedTurnKeepsUserMessage ==
    [][/\ (turn.pc \in {"idle", "done"} /\ turn'.pc \in InFlight)
            => messages' = [messages EXCEPT ![turn'.conv] =
                               Append(@, Message("user", UserContent(turn'.content)))]
       /\ turn.pc \in InFlight
            => /\ LastMessage(turn.conv) = Message("user", UserContent(turn.content))
               /\ (turn'.pc \in InFlight \/ turn'.status = 500)
                    => messages' = messages]_vars

\* the answer generation of a turn failed in a conversation that holds an
\* earlier turn
C11_Witness ==
    /\ turn.pc = "done" /\ turn.status = 500
    /\ turn.fault = "model" /\ turn.generated
    /\ messages[turn.conv] =
          EarlierTurn \o <<Message("user", UserContent(turn.content))>>

\* C12: a request of a user who does not own the conversation reads none of
\* its messages and leaves its messages unchanged.
C12_OwnerScoped ==
    [][(turn' # turn /\ turn'.conv = UserConv /\ turn'.user \in Users \ {Owner})
          => /\ messages'[UserConv] = messages[UserConv]
             /\ turn'.read = <<>>
             /\ turn'.history = <<>>]_vars

\* C13: when the context is empty and no tier parses the classification
\* output, the answer is the static insufficient-information text: it is
\* not empty, and the turn does not fail because of the output.
C13_UnparsedClassificationIsStatic ==
    turn.classified = "unparsed"
    => /\ IsBlankContext(turn.ctx)
       /\ turn.final = StaticRefusal
       /\ turn.final.text # BlankText
       /\ turn.pc \in {"persist", "done"}
       /\ turn.fault \in {"none", "db"}
       /\ (turn.pc = "done" /\ turn.status = 200
             => LastMessage(turn.conv) = Message("assistant", StaticRefusal))

\* an unparsed classification was answered with the static text
C13_Witness ==
    /\ turn.classified = "unparsed"
    /\ turn.pc = "done" /\ turn.status = 200
    /\ LastMessage(turn.conv).content.kind = "insufficient"

\* C14: without knowledge context, a message classified as info_request is
\* answered with the insufficient-information refusal, whatever reply text
\* came with the classification.
C14_InfoRequestIsRefusal ==
    turn.classified = "info_request" => turn.final.kind = "insufficient"

(***************************************************************************)
(* Retriever properties, stated on the candidates, the query embedding and *)
(* the context of the turn                                                 *)
(***************************************************************************)
\* findRelevantKnowledge has returned
HasRetrieved == turn.pc \in {"plan", "exec", "compose", "persist"}

\* the stored embedding of candidate i deserializes to a non-empty vector
Deserializes(i) ==
    LET p == JsonParse(turn.candidates[i].embedding)
    IN  p.ok /\ p.value \in Seq(Int) /\ Len(p.value) > 0

\* candidates a similarity with the query was computed for
Scored ==
    {i \in DOMAIN turn.candidates :
        /\ turn.embedOutcome = "ok"
        /\ Deserializes(i)
        /\ Len(JsonParse(turn.candidates[i].embedding).value) = Len(turn.query.values)}

Similarity(i) ==
    CosineSimilarity(turn.query.values, JsonParse(turn.candidates[i].embedding).value)

\* candidates whose similarity is a number, and those above 0.3
Rankable == {i \in Scored : ~IsNaN(Similarity(i))}
Relevant == {i \in Rankable : AboveThreshold(Similarity(i))}

InContext(i) == \E k \in DOMAIN turn.ctx : turn.ctx[k] = turn.candidates[i].content

\* S holds the n highest similarities of the candidates in From
Highest(S, From, n) ==
    /\ S \subseteq From
    /\ Cardinality(S) = IF Cardinality(From) < n THEN Cardinality(From) ELSE n
    /\ \A i \in S, j \in From \ S : ~SimGreater(Similarity(j), Similarity(i))

\* the context lists the contents of exactly the candidates in S, each
\* once, by descending similarity
ContextIs(S) ==
    /\ Len(turn.ctx) = Cardinality(S)
    /\ \A i \in S : InContext(i)
    /\ \A k \in DOMAIN turn.ctx, i, j \in S :
          (k < Len(turn.ctx) /\ turn.ctx[k] = turn.candidates[i].content
             /\ turn.ctx[k + 1] = turn.candidates[j].content)
          => ~SimGreater(Similarity(j), Similarity(i))

\* C15: for an empty candidate list the Retriever returns the empty context
\* and the embedding backend is not called.
C15_EmptyCandidatesNoEmbedding ==
    (HasRetrieved /\ turn.candidates = <<>>)
    => /\ turn.ctx = <<>>
       /\ turn.embedOutcome = "notcalled"

\* the Retriever returned for an empty candidate list
C15_Witness ==
    /\ turn.pc = "plan" /\ turn.candidates = <<>>
    /\ turn.content = "m1" /\ turn.ctx = <<>>

\* C16: when a candidate among the three highest similarities is above 0.3,
\* the context is exactly the contents of the top-three candidates that are
\* above 0.3, by descending similarity.
C16_TopThreeAboveThreshold ==
    (HasRetrieved /\ Relevant # {})
    => \E S \in SUBSET Relevant : Highest(S, Relevant, TopK) /\ ContextIs(S)

\* C17: when a candidate is rankable and none of the top three is above
\* 0.3, the context is the contents of the three (or fewer) highest
\* candidates by descending similarity, and it is not empty.
C17_FallbackTopThree ==
    (HasRetrieved /\ Rankable # {} /\ Relevant = {})
    => /\ turn.ctx # <<>>
       /\ \E S \in SUBSET Rankable : Highest(S, Rankable, TopK) /\ ContextIs(S)

\* C18: a candidate whose stored embedding does not deserialize or is empty
\* never appears in the context, and the context is empty when every
\* candidate is such.
C18_UndeserializableDropped ==
    HasRetrieved
    => /\ \A i \in DOMAIN turn.candidates : ~Deserializes(i) => ~InContext(i)
       /\ (\A i \in DOMAIN turn.candidates : ~Deserializes(i)) => turn.ctx = <<>>

\* the below-threshold fallback was returned for a list that holds a
\* candidate without a usable embedding
C18_Witness ==
    /\ turn.pc = "plan"
    /\ turn.ctx # <<>> /\ Relevant = {}
    /\ \E i \in DOMAIN turn.candidates : ~Deserializes(i)

\* C19: a candidate whose similarity is NaN is never in the context, and a
\* candidate above 0.3 with fewer than three candidates of defined
\* similarity ranked at or above it is in the context.
C19_NaNIsNonMatch ==
    HasRetrieved
    => /\ \A i \in Scored : IsNaN(Similarity(i)) => ~InContext(i)
       /\ \A j \in Relevant :
            Cardinality({i \in Rankable \ {j} :
                            ~SimGreater(Similarity(j), Similarity(i))}) < TopK
            => InContext(j)

(***************************************************************************)
(* Summarizer properties                                                   *)
(***************************************************************************)
\* no tier of the recovery finds an object with a string summary in raw
NoTierParses(raw) ==
    /\ ~ValidSummary(JsonParseText(raw))
    /\ ~ValidSummary(JsonParseText(FenceStrip(raw)))
    /\ ~(LazyBraceMatch(FenceStrip(raw)).ok
          /\ ValidSummary(JsonParseText(LazyBraceMatch(FenceStrip(raw)).text)))

\* texts that hold {"summary":"x"} bare, fenced, or as the first object
\* inside prose
HoldsSummaryX ==
    {<<Obj(SummaryObject("x"))>>, <<Fence(SummaryObject("x"))>>,
     <<Prose, Obj(SummaryObject("x")), Prose>>, <<Prose, Fence(SummaryObject("x"))>>}

\* C20 as stated: for every text the summary call returns, the request does
\* not fail at the summary; a bare, fenced or prose-wrapped
\* {"summary":"x"} yields x; and when no tier parses, the summary is the
\* first 800 characters of the cleaned text.
C20_SummaryRecovery ==
    up.summaryCall = "returned"
    => /\ up.fault # "summary"
       /\ up.fault = "none" =>
            /\ up.summaryText \in HoldsSummaryX
                 => up.summary = SummaryValue("parsed", "x", <<>>)
            /\ NoTierParses(up.summaryText)
                 => up.summary = SummaryValue("heuristic", BlankText,
                                              Slice800(FenceStrip(up.summaryText)))

\* C20 as amended: as above, and when no tier parses and the cleaned text
\* is empty the summary is the placeholder.
C20_SummaryRecoveryOrPlaceholder ==
    up.summaryCall = "returned"
    => /\ up.fault # "summary"
       /\ up.fault = "none" =>
            /\ up.summaryText \in HoldsSummaryX
                 => up.summary = SummaryValue("parsed", "x", <<>>)
            /\ NoTierParses(up.summaryText)
                 => up.summary =
                      IF FenceStrip(up.summaryText) = <<>>
                      THEN SummaryValue("placeholder", "No summary available", <<>>)
                      ELSE SummaryValue("heuristic", BlankText,
                                        Slice800(FenceStrip(up.summaryText)))

\* an upload whose summary text was long prose was answered 201 with the
\* cut text as its summary
C20_Witness ==
    /\ up.pc = "done" /\ up.status = 201
    /\ up.summaryText = <<LongProse, Prose>>
    /\ up.summary = SummaryValue("heuristic", BlankText, <<CutProse>>)

\* the overlapping requests that were answered
SendsAnswered == {r \in Senders : sends[r].pc = "done"}

\* no overlapping request is between its first storage call and its response
SendsSettled == \A r \in Senders : sends[r].pc \in {"idle", "done"}

\* the conversation had no message and no title when the first request came
StartedUntitled ==
    messages[UserConv] # <<>> /\ messages[UserConv][1] # EarlierTurn[1]

\* C21: when user messages with non-blank content are sent to a conversation
\* whose title is empty, then once every send in flight has completed (each
\* answered 200, no storage call failed) the conversation has a non-empty
\* title derived from its first user message, and the handler wrote the
\* title at most once; also when the first two sends overlap.
C21_TitleSetOnce ==
    (/\ StartedUntitled
     /\ SendsSettled
     /\ SendsAnswered # {}
     /\ \A r \in SendsAnswered : sends[r].status = 200 /\ sends[r].fault = "none")
    => /\ title # BlankText
       /\ title = TitleOf(messages[UserConv][1].content.text)
       /\ Cardinality({r \in Senders : sends[r].wrote}) <= 1

\* a step that accepts a new embed request of one of the kinds
EmbedRequestStep(ops) ==
    /\ turn.pc \in {"idle", "done"}
    /\ turn' # turn
    /\ turn'.req.op \in ops

\* origins whose host is example.com or a subdomain of it
UnderExampleCom == {"https://example.com", "https://app.example.com"}

\* C22: for the allow-list rule .example.com an embed request is let through
\* the origin check only if the host of its origin is example.com or a
\* subdomain of example.com (an origin that merely ends with example.com is
\* rejected); an empty allow-list rejects every origin and a non-wildcard
\* list rejects a request without Origin and Referer.
C22_SubdomainRule ==
    [][(/\ EmbedRequestStep({"session", "post", "read"})
        /\ agent.allowEmbed
        /\ turn'.req.key = agent.publicKey)
       => /\ (agent.origins = <<".example.com">> /\ turn'.status # 403)
                => turn'.req.origin \in UnderExampleCom
          /\ agent.origins = <<>> => turn'.status = 403
          /\ (agent.origins # <<"*">> /\ turn'.req.origin = "") => turn'.status = 403]_vars

\* C23: in every chat turn, also one that overlaps with another send to the
\* same conversation, the user message the Composer treats as the latest
\* (the last user entry of the history passed to it) is the message
\* submitted in that same request.
C23_LatestIsOwnMessage ==
    \A r \in Senders :
        sends[r].pc = "answer" \/ (sends[r].pc = "done" /\ sends[r].status = 200)
            => sends[r].latest = sends[r].content

\* the owner's chat turn was answered 200
TurnSucceeded == turn.kind = "auth" /\ turn.pc = "done" /\ turn.status = 200

\* C24: every chat turn that returns success persisted exactly one user
\* message and then exactly one assistant message, produced by exactly one
\* of the three branches (planner clarification, tool-result answer,
\* generated answer); a turn makes at most one outbound tool request.
C24_OneAnswerPerTurn ==
    /\ [](TurnSucceeded =>
            LET ms == messages[turn.conv]
                n  == Len(ms)
            IN  /\ n = Len(turn.history) + 1
                /\ ms[n - 1] = Message("user", UserContent(turn.content))
                /\ ms[n] = Message("assistant", turn.final)
                /\ \/ /\ turn.final.kind = "clarification"
                      /\ ~turn.executorRan /\ ~turn.generated
                   \/ /\ turn.final.kind = "toolAnswer"
                      /\ turn.toolRun # NoRun /\ turn.generated
                   \/ /\ turn.final.kind \in {"grounded", "casual", "info", "insufficient"}
                      /\ turn.toolRun = NoRun /\ turn.generated)
    /\ [][{r \in outbound' \ outbound : r.site = "chat"} # {}
            => /\ Cardinality(outbound' \ outbound) = 1
               /\ ~turn.executorRan /\ turn'.executorRan]_vars

\* a turn answered from the result of a tool request that was sent
C24_Witness ==
    /\ TurnSucceeded
    /\ turn.final.kind = "toolAnswer"
    /\ turn.sentTo # ""
    /\ Len(messages[turn.conv]) = 2

\* candidates whose vector has another dimension than the query's
Mismatched ==
    {i \in DOMAIN turn.candidates :
        turn.embedOutcome = "ok" /\ Deserializes(i) /\ i \notin Scored}

\* C25: every candidate whose stored embedding deserializes to a non-empty
\* vector of the query's dimension takes part in the ranking whatever its
\* similarity in [-1, 1] is: when no candidate is above 0.3, a candidate with
\* fewer than three candidates ranked at or above it, the one of similarity
\* -1 included, is in the context.
C25_LowestStillRanked ==
    (HasRetrieved /\ Relevant = {} /\ Mismatched = {} /\ Scored = Rankable)
    => \A i \in Rankable :
          Cardinality({j \in Rankable \ {i} :
                          ~SimGreater(Similarity(i), Similarity(j))}) < TopK
          => InContext(i)

\* C26: a candidate whose vector has another dimension than the query's
\* affects only itself: it is not in the context, and the candidates with
\* comparable embeddings are still ranked and returned.
C26_MismatchAffectsOnlyItself ==
    (HasRetrieved /\ Mismatched # {}
       /\ \E i \in Rankable : ~IsMinusOne(Similarity(i)))
    => /\ turn.ctx # <<>>
       /\ \A i \in Mismatched : ~InContext(i)

\* C27: every assistant message persisted by a chat turn has non-empty
\* content, on the clarification path, the tool-result path and the
\* knowledge or no-knowledge path, for every text the generative model may
\* return.
C27_AssistantContentNonEmpty ==
    \A conv \in DOMAIN messages :
        \A i \in AssistantMessages(conv) : messages[conv][i].content.text # BlankText

\* keys the agent had before its current one
PreviousKeys ==
    {KeyNames[i] : i \in 1..(IndexIn(KeyNames, agent.publicKey) - 1)}

\* C28: once the public key was rotated by a publish, every embed request
\* (session, post message, get messages) that uses a previous key is
\* answered 404; while allowEmbed is false after a publish every embed
\* request is answered 404; a publish without rotate never changes an
\* existing key.
C28_RotatedKeyRejected ==
    [][/\ (EmbedRequestStep({"session", "post", "read"})
             /\ (turn'.req.key \in PreviousKeys \/ ~agent.allowEmbed))
          => turn'.status = 404
       /\ (EmbedRequestStep({"publish"}) /\ ~turn'.req.rotate /\ agent.publicKey # "")
          => agent'.publicKey = agent.publicKey]_vars

\* a request with the key the agent had before a rotation was answered 404
C28_Witness ==
    /\ turn.req.op \in {"session", "post", "read"}
    /\ turn.req.key = PublicKey
    /\ agent.allowEmbed /\ agent.publicKey = KeyNames[2]
    /\ turn.pc = "done" /\ turn.status = 404

\* the allow-list lets the origin in: the wildcard lets every request in, a
\* rule with a leading dot the domain and its subdomains, another rule the
\* origin equal to it
OriginPermitted(allowed, origin) ==
    \/ allowed = <<"*">>
    \/ /\ origin # ""
       /\ \E i \in 1..Len(allowed) :
            IF allowed[i] = ".example.com" THEN origin \in UnderExampleCom
            ELSE allowed[i] # "*" /\ origin = allowed[i]

\* C29: a message posted through the embed API is persisted only in a
\* conversation that was created as an embedded session of the agent the
\* public key identifies, and only while the agent has allowEmbed = true and
\* the request origin is allowed; a session request with an existing
\* sessionId and without newConversation returns that same conversation,
\* and otherwise a fresh sessionId and conversation are created.
C29_EmbedOnlyIntoOwnSession ==
    [][/\ (EmbedRequestStep({"post"}) /\ messages' # messages)
          => /\ agent.allowEmbed
             /\ turn'.req.key = agent.publicKey
             /\ OriginPermitted(agent.origins, turn'.req.origin)
             /\ turn'.req.sid \in sessions
             /\ ConvNames[IndexIn(SessionNames, turn'.req.sid)] = EmbedConv
             /\ messages'[UserConv] = messages[UserConv]
       /\ (EmbedRequestStep({"session"}) /\ turn'.status = 200)
          => IF turn'.req.sid \in sessions /\ ~turn'.newConversation
             THEN /\ turn'.session = turn'.req.sid
                  /\ turn'.conv = ConvNames[IndexIn(SessionNames, turn'.req.sid)]
                  /\ sessions' = sessions
             ELSE /\ turn'.session \notin sessions
                  /\ sessions' = sessions \cup {turn'.session}
                  /\ turn'.conv = ConvNames[IndexIn(SessionNames, turn'.session)]]_vars

(***************************************************************************)
(* FileUpload properties                                                   *)
(***************************************************************************)
\* C30: when an upload finishes, with success or with an error, that status
\* is recorded on the list entry of the file that was uploaded and on no
\* other entry, for every interleaving of uploadAll, removeFile on other
\* entries and upload completions.
C30_StatusOnUploadedFile ==
    [][\A u \in uploads \ uploads' :
          \A i \in DOMAIN files :
              IF files[i].file = u.file
              THEN files'[i].file = u.file /\ files'[i].status \in {"success", "error"}
              ELSE files'[i] = files[i]]_vars

====
